---- MODULE Spec2Model ----
(***************************************************************************)
(* typify: conversion of one JavaScript file to TypeScript                 *)
(* (src/src/index.js, the second, complete version, lines 279-889).        *)
(*                                                                         *)
(* The parsed file is a sequence of the nodes the two visitors of          *)
(* convertFile are called on, in traversal order: Function nodes and       *)
(* VariableDeclaration nodes.  The walk mutates them in place, removes     *)
(* require declarations and fills the import list; the import assembly     *)
(* then puts the bundle imports in front and the result is written.        *)
(***************************************************************************)
EXTENDS Integers, Sequences, FiniteSets, TLC

VARIABLES
    source,       \* the parsed input file: the nodes in traversal order
    ast,          \* the tree being rewritten in place (nodes keep their id)
    pos,          \* index in ast of the next node traverse() will visit
    stage,        \* position of convertFile
    imports,      \* Set of module paths already imported (index.js:600)
    importNodes,  \* list of ImportDeclaration nodes (index.js:601)
    needs,        \* the eight needs...Types flags (index.js:604-613)
    output,       \* content of the .ts file, NoOutput while not written
    exitCode      \* status given to process.exit, NoExit while running

vars == <<source, ast, pos, stage, imports, importNodes, needs, output, exitCode>>

----------------------------------------------------------------------------
(* Bounds of the model *)

MaxNodes == 2        \* visited nodes in one file
MaxRefs == 2         \* reference sites of one parameter
MaxViolations == 1   \* constant violations of one binding

----------------------------------------------------------------------------
(* Strings.  Parameter names are sequences of characters, so that          *)
(* toLowerCase, includes and endsWith are computed and not tabulated.      *)

UpperCase == <<"A","B","C","D","E","F","G","H","I","J","K","L","M",
               "N","O","P","Q","R","S","T","U","V","W","X","Y","Z">>
LowerCase == <<"a","b","c","d","e","f","g","h","i","j","k","l","m",
               "n","o","p","q","r","s","t","u","v","w","x","y","z">>

toLowerCaseChar(c) ==
    IF \E i \in 1..Len(UpperCase) : UpperCase[i] = c
    THEN LowerCase[CHOOSE i \in 1..Len(UpperCase) : UpperCase[i] = c]
    ELSE c

toLowerCase(s) == [i \in 1..Len(s) |-> toLowerCaseChar(s[i])]

includes(s, t) ==
    \E k \in 0..(Len(s) - Len(t)) : SubSeq(s, k + 1, k + Len(t)) = t

endsWith(s, t) ==
    /\ Len(t) <= Len(s)
    /\ SubSeq(s, Len(s) - Len(t) + 1, Len(s)) = t

s_err == <<"e","r","r">>
s_error == <<"e","r","r","o","r">>
s_next == <<"n","e","x","t">>
s_req == <<"r","e","q">>
s_request == <<"r","e","q","u","e","s","t">>
s_res == <<"r","e","s">>
s_response == <<"r","e","s","p","o","n","s","e">>
s_db == <<"d","b">>
s_database == <<"d","a","t","a","b","a","s","e">>
s_collection == <<"c","o","l","l","e","c","t","i","o","n">>
s_cursor == <<"c","u","r","s","o","r">>
s_model == <<"m","o","d","e","l">>
s_schema == <<"s","c","h","e","m","a">>
s_document == <<"d","o","c","u","m","e","n","t">>
s_connection == <<"c","o","n","n","e","c","t","i","o","n">>
s_conn == <<"c","o","n","n">>
s_query == <<"q","u","e","r","y">>
s_pool == <<"p","o","o","l">>
s_socket == <<"s","o","c","k","e","t">>
s_io == <<"i","o">>
s_token == <<"t","o","k","e","n">>
s_jwt == <<"j","w","t">>
s_axios == <<"a","x","i","o","s">>
s_client == <<"c","l","i","e","n","t">>
s_http == <<"h","t","t","p">>
s_fetch == <<"f","e","t","c","h">>
s_init == <<"i","n","i","t">>
s_user == <<"u","s","e","r">>
s_Socket == <<"S","o","c","k","e","t">>
s_userModel == <<"u","s","e","r","M","o","d","e","l">>

----------------------------------------------------------------------------
(* Type annotations *)

NoAnnotation == [type |-> "undefined"]

TSKeyword(k) == [type |-> "TSTypeAnnotation", typeAnnotation |-> [type |-> k]]

TSReference(name, params) ==
    [type |-> "TSTypeAnnotation",
     typeAnnotation |-> [type |-> "TSTypeReference", typeName |-> name,
                         typeParameters |-> params]]

ErrorOrNull ==
    [type |-> "TSTypeAnnotation",
     typeAnnotation |-> [type |-> "TSUnionType",
                         types |-> <<"Error", "TSNullKeyword">>]]

RecordStringAny == TSReference("Record", <<"TSStringKeyword", "TSAnyKeyword">>)

AnyArray ==
    [type |-> "TSTypeAnnotation",
     typeAnnotation |-> [type |-> "TSArrayType", elementType |-> "TSAnyKeyword"]]

(* The outcome of a call that can throw *)
Returned(v) == [threw |-> FALSE, value |-> v]
Thrown(e) == [threw |-> TRUE, value |-> e]

----------------------------------------------------------------------------
(* Reference sites.  A reference is the path of one occurrence of the      *)
(* parameter: key is the field of the parent that holds it, parent is the  *)
(* parent node.  The occurrence itself is always an Identifier node.       *)

Undefined == "undefined"

ParentNode(t, op, l, r, callee) ==
    [type |-> t, operator |-> op, left |-> l, right |-> r, callee |-> callee]

NoNode == [type |-> Undefined, property |-> Undefined]
IdentifierNode == [type |-> "Identifier", property |-> Undefined]
MemberNode(prop) == [type |-> "MemberExpression", property |-> prop]

Reference(key, parent) == [key |-> key, parent |-> parent]

Binary(key, op, otherType) ==
    Reference(key, ParentNode("BinaryExpression", op,
                              IF key = "left" THEN "Identifier" ELSE otherType,
                              IF key = "left" THEN otherType ELSE "Identifier",
                              NoNode))

(* p(...): the parameter is the callee *)
CalleeSite == Reference("callee", ParentNode("CallExpression", Undefined, Undefined, Undefined, IdentifierNode))
(* f(p): the parameter is an argument *)
ArgumentSite == Reference("arguments", ParentNode("CallExpression", Undefined, Undefined, Undefined, MemberNode("find")))
(* xs.map(p) *)
MapArgumentSite == Reference("arguments", ParentNode("CallExpression", Undefined, Undefined, Undefined, MemberNode("map")))
(* p.name, p.map(...): the parameter is the object of a member access *)
ObjectSite == Reference("object", ParentNode("MemberExpression", Undefined, Undefined, Undefined, NoNode))
(* p.map(...): the parameter is the object of the member access p.map,    *)
(* and p.map is the callee of the call                                     *)
MapObjectSite ==
    Reference("object", [type |-> "MemberExpression", operator |-> Undefined,
                         left |-> Undefined, right |-> Undefined,
                         callee |-> NoNode, property |-> "map"])
(* if (p) ... *)
IfTestSite == Reference("test", ParentNode("IfStatement", Undefined, Undefined, Undefined, NoNode))
(* p ? a : b   and   c ? p : b *)
ConditionalTestSite == Reference("test", ParentNode("ConditionalExpression", Undefined, Undefined, Undefined, NoNode))
ConsequentSite == Reference("consequent", ParentNode("ConditionalExpression", Undefined, Undefined, Undefined, NoNode))
(* return p *)
ReturnSite == Reference("argument", ParentNode("ReturnStatement", Undefined, Undefined, Undefined, NoNode))

isBinaryExpression(parent) == parent.type = "BinaryExpression"
isCallExpression(parent) == parent.type = "CallExpression"
isIfStatement(parent) == parent.type = "IfStatement"
isConditionalExpression(parent) == parent.type = "ConditionalExpression"
isMemberExpression(parent) == parent.type = "MemberExpression"

----------------------------------------------------------------------------
(* inferParameterType, index.js:297-534 *)

(* index.js:301-328: the name rules of declared and arrow functions.       *)
(* NoAnnotation stands for "no return taken".                              *)
CallbackNameRule(param, functionType) ==
    IF functionType = "ArrowFunctionExpression" \/ functionType = "FunctionDeclaration"
    THEN IF param.name = s_err \/ param.name = s_error
         THEN ErrorOrNull
         ELSE IF param.name = s_next
              THEN TSReference("NextFunction", <<>>)
              ELSE NoAnnotation
    ELSE NoAnnotation

(* index.js:340 *)
otherOperand(ref) ==
    IF ref.key = "left" THEN ref.parent.right ELSE ref.parent.left

(* index.js:331-402: the body of the loop for one reference *)
UsageRule(param, ref) ==
    LET parent == ref.parent IN
    IF isBinaryExpression(parent) /\ parent.operator = "+"
    THEN TSKeyword("TSStringKeyword")
    ELSE IF /\ isBinaryExpression(parent)
            /\ parent.operator \in {"+", "-", "*", "/"}
            /\ otherOperand(ref) = "NumericLiteral"
    THEN TSKeyword("TSNumberKeyword")
    ELSE IF /\ isCallExpression(parent)
            /\ ref.key = "callee"
            /\ parent.callee.property = "map"
    THEN AnyArray
    ELSE IF isIfStatement(parent) \/ isConditionalExpression(parent)
    THEN TSKeyword("TSBooleanKeyword")
    ELSE IF isMemberExpression(parent)
    THEN IF param.name = s_req \/ param.name = s_request
         THEN TSReference("Request", <<>>)
         ELSE IF param.name = s_res \/ param.name = s_response
              THEN TSReference("Response", <<>>)
              ELSE RecordStringAny
    ELSE NoAnnotation

(* a variant in which the last matching reference wins *)
RECURSIVE ScanReferences_LastWins(_, _, _)
ScanReferences_LastWins(param, references, i) ==
    IF i > Len(references)
    THEN NoAnnotation
    ELSE IF ScanReferences_LastWins(param, references, i + 1) # NoAnnotation
         THEN ScanReferences_LastWins(param, references, i + 1)
         ELSE UsageRule(param, references[i])

(* index.js:330-403: for (const ref of references), first return wins *)
RECURSIVE ScanReferences(_, _, _)
ScanReferences(param, references, i) ==
    IF i > Len(references)
    THEN NoAnnotation
    ELSE IF UsageRule(param, references[i]) # NoAnnotation
         THEN UsageRule(param, references[i])
         ELSE ScanReferences(param, references, i + 1)

(* index.js:405-533: the name catalog.  needsAxiosTypes is a local of      *)
(* convertFile and is not in scope here: evaluating it is a ReferenceError. *)
NameCatalog(param) ==
    LET paramName == toLowerCase(param.name) IN
    IF paramName = s_db \/ paramName = s_database
    THEN Returned(TSReference("Db", <<>>))
    ELSE IF paramName = s_collection
    THEN Returned(TSReference("Collection", <<>>))
    ELSE IF paramName = s_model \/ endsWith(paramName, s_model)
    THEN Returned(TSReference("Model", <<"TSAnyKeyword">>))
    ELSE IF paramName = s_schema
    THEN Returned(TSReference("Schema", <<>>))
    ELSE IF paramName = s_connection \/ paramName = s_conn
    THEN Returned(TSReference("Connection", <<>>))
    ELSE IF paramName = s_pool
    THEN Returned(TSReference("Pool", <<>>))
    ELSE IF paramName = s_socket \/ includes(paramName, s_socket)
    THEN Returned(TSReference("Socket", <<>>))
    ELSE IF paramName = s_token \/ paramName = s_jwt
    THEN Returned(TSReference("JwtPayload", <<>>))
    ELSE IF includes(paramName, s_axios) \/ paramName = s_client
    THEN Returned(TSReference("AxiosInstance", <<>>))
    ELSE IF paramName = s_response
    THEN Thrown("ReferenceError")
    ELSE IF includes(paramName, s_fetch) \/ paramName = s_init
    THEN Returned(TSReference("RequestInit", <<>>))
    ELSE Returned(TSKeyword("TSAnyKeyword"))

inferParameterType(param, functionType) ==
    IF CallbackNameRule(param, functionType) # NoAnnotation
    THEN Returned(CallbackNameRule(param, functionType))
    ELSE IF ScanReferences(param, param.references, 1) # NoAnnotation
         THEN Returned(ScanReferences(param, param.references, 1))
         ELSE NameCatalog(param)

----------------------------------------------------------------------------
(* The Function visitor, index.js:616-686 *)

FunctionTypes ==
    {"FunctionDeclaration", "FunctionExpression", "ArrowFunctionExpression",
     "ObjectMethod", "ClassMethod"}

(* A parameter.  name is param.name of an Identifier; of an                *)
(* AssignmentPattern (p = 1) or a RestElement (...p) it is the name of the *)
(* identifier inside, which the visitor does not look at.                  *)
Param(t, name, annotation, references) ==
    [type |-> t, name |-> name, typeAnnotation |-> annotation,
     references |-> references]

NoFlags ==
    [Express |-> FALSE, MongoDB |-> FALSE, Mongoose |-> FALSE, SQL |-> FALSE,
     SocketIO |-> FALSE, JWT |-> FALSE, Axios |-> FALSE, Fetch |-> FALSE]

(* index.js:621-679: the flags one parameter name raises *)
Triggers(paramName) ==
    [Express |-> paramName \in {s_req, s_request, s_res, s_response, s_next},
     MongoDB |-> paramName \in {s_db, s_database, s_collection, s_cursor},
     Mongoose |-> \/ paramName \in {s_model, s_schema, s_document}
                  \/ endsWith(paramName, s_model),
     SQL |-> paramName \in {s_connection, s_conn, s_query, s_pool},
     SocketIO |-> paramName \in {s_socket, s_io} \/ includes(paramName, s_socket),
     JWT |-> paramName \in {s_token, s_jwt} \/ includes(paramName, s_token),
     Axios |-> includes(paramName, s_axios) \/ includes(paramName, s_http),
     Fetch |-> includes(paramName, s_fetch) \/ paramName = s_response]

RaiseFlags(flags, raised) ==
    [f \in DOMAIN flags |-> flags[f] \/ raised[f]]

(* a variant without the test of param.typeAnnotation *)
VisitParam_Overwrites(param, functionType, flags) ==
    IF param.type = "Identifier"
    THEN LET raised == RaiseFlags(flags, Triggers(toLowerCase(param.name)))
             inferred == inferParameterType(param, functionType)
         IN  IF inferred.threw
             THEN [threw |-> TRUE, param |-> param, flags |-> raised]
             ELSE [threw |-> FALSE,
                   param |-> [param EXCEPT !.typeAnnotation = inferred.value],
                   flags |-> raised]
    ELSE [threw |-> FALSE, param |-> param, flags |-> flags]

(* index.js:618-684: the callback of forEach for one parameter *)
VisitParam(param, functionType, flags) ==
    IF param.type = "Identifier"
    THEN LET raised == RaiseFlags(flags, Triggers(toLowerCase(param.name)))
             inferred == inferParameterType(param, functionType)
         IN  IF param.typeAnnotation = NoAnnotation
             THEN IF inferred.threw
                  THEN [threw |-> TRUE, param |-> param, flags |-> raised]
                  ELSE [threw |-> FALSE,
                        param |-> [param EXCEPT !.typeAnnotation = inferred.value],
                        flags |-> raised]
             ELSE [threw |-> FALSE, param |-> param, flags |-> raised]
    ELSE [threw |-> FALSE, param |-> param, flags |-> flags]

(* index.js:617: path.node.params.forEach, stopped by the first exception *)
RECURSIVE VisitParams(_, _, _, _)
VisitParams(params, functionType, i, flags) ==
    IF i > Len(params)
    THEN [threw |-> FALSE, params |-> params, flags |-> flags]
    ELSE LET r == VisitParam(params[i], functionType, flags) IN
         IF r.threw
         THEN [threw |-> TRUE, params |-> params, flags |-> r.flags]
         ELSE VisitParams([params EXCEPT ![i] = r.param], functionType, i + 1, r.flags)

----------------------------------------------------------------------------
(* handleRequireToImport, index.js:536-589 *)

Identifier(name) == [type |-> "Identifier", name |-> name, properties |-> <<>>]
ObjectPattern(properties) ==
    [type |-> "ObjectPattern", name |-> Undefined, properties |-> properties]
ArrayPattern == [type |-> "ArrayPattern", name |-> Undefined, properties |-> <<>>]

NoKey == [type |-> Undefined, name |-> Undefined]
ObjectProperty(key, value) ==
    [type |-> "ObjectProperty",
     key |-> [type |-> "Identifier", name |-> key],
     value |-> [type |-> "Identifier", name |-> value]]
(* {...rest}: a RestElement has an argument and neither key nor value *)
RestElement == [type |-> "RestElement", key |-> NoKey, value |-> NoKey]

StringLiteral(v) == [type |-> "StringLiteral", value |-> v]
CallExpression(calleeName, arguments) ==
    [type |-> "CallExpression", callee |-> [type |-> "Identifier", name |-> calleeName],
     arguments |-> arguments]
NumericLiteral ==
    [type |-> "NumericLiteral", callee |-> NoKey, arguments |-> <<>>]
(* var x;  has no initializer *)
NoInit == [type |-> Undefined, callee |-> NoKey, arguments |-> <<>>]

(* binding is what path.scope.getBinding(declaration.id.name) gives *)
VariableDeclarator(id, init, violations) ==
    [id |-> id, init |-> init, binding |-> [constantViolations |-> violations]]

VariableDeclaration(kind, declarations) ==
    [type |-> "VariableDeclaration", kind |-> kind, declarations |-> declarations]

ImportDeclaration(specifiers, src) ==
    [type |-> "ImportDeclaration", specifiers |-> specifiers, source |-> src]

ImportSpecifier(imported, local) ==
    [type |-> "ImportSpecifier", imported |-> imported, local |-> local]

ImportDefaultSpecifier(local) ==
    [type |-> "ImportDefaultSpecifier", imported |-> Undefined, local |-> local]

(* a variant that loses the alias: the local name is the key *)
PropertySpecifier_NoAlias(prop) ==
    ImportSpecifier(prop.key.name, prop.key.name)

(* index.js:566-576: one specifier per property; prop.key.name of a        *)
(* property without key is a TypeError                                     *)
PropertySpecifier(prop) ==
    ImportSpecifier(prop.key.name,
                    IF prop.value.name # Undefined THEN prop.value.name
                    ELSE prop.key.name)

(* a variant without the imports.has test *)
AddImport_NoDedup(importSet, nodes, importDeclaration) ==
    [imports |-> importSet \cup {importDeclaration.source.value},
     importNodes |-> Append(nodes, importDeclaration)]

(* index.js:583-586 *)
AddImport(importSet, nodes, importDeclaration) ==
    IF importDeclaration.source.value \notin importSet
    THEN [imports |-> importSet \cup {importDeclaration.source.value},
          importNodes |-> Append(nodes, importDeclaration)]
    ELSE [imports |-> importSet, importNodes |-> nodes]

Untouched(importSet, nodes) ==
    [threw |-> FALSE, removed |-> FALSE, imports |-> importSet, importNodes |-> nodes]

handleRequireToImport(node, importSet, nodes) ==
    LET declaration == node.declarations[1]
        requirePath == declaration.init.arguments[1]
    IN
    IF declaration.init.type # "CallExpression"
    THEN Untouched(importSet, nodes)
    ELSE IF declaration.init.callee.name # "require"
    THEN Untouched(importSet, nodes)
    ELSE IF Len(declaration.init.arguments) = 0 \/ requirePath.type # "StringLiteral"
    THEN Untouched(importSet, nodes)
    ELSE IF declaration.id.type = "Identifier"
    THEN LET added == AddImport(importSet, nodes,
                          ImportDeclaration(<<ImportDefaultSpecifier(declaration.id.name)>>,
                                            requirePath))
         IN  [threw |-> FALSE, removed |-> TRUE,
              imports |-> added.imports, importNodes |-> added.importNodes]
    ELSE IF declaration.id.type = "ObjectPattern"
    THEN IF \E i \in 1..Len(declaration.id.properties) :
                declaration.id.properties[i].key = NoKey
         THEN [threw |-> TRUE, removed |-> FALSE,
               imports |-> importSet, importNodes |-> nodes]
         ELSE LET specifiers == [i \in 1..Len(declaration.id.properties) |->
                                   PropertySpecifier(declaration.id.properties[i])]
                  added == AddImport(importSet, nodes,
                                     ImportDeclaration(specifiers, requirePath))
              IN  [threw |-> FALSE, removed |-> TRUE,
                   imports |-> added.imports, importNodes |-> added.importNodes]
    ELSE Untouched(importSet, nodes)

(* a variant that takes every binding for constant *)
RewriteKind_AlwaysConst(node) ==
    IF node.kind = "var"
    THEN LET declaration == node.declarations[1] IN
         IF declaration.id.name # Undefined
         THEN [node EXCEPT !.kind = "const"]
         ELSE node
    ELSE node

(* index.js:690-696: var becomes const or let *)
RewriteKind(node) ==
    IF node.kind = "var"
    THEN LET declaration == node.declarations[1] IN
         IF declaration.id.name # Undefined
         THEN [node EXCEPT !.kind = IF declaration.binding.constantViolations = 0
                                    THEN "const" ELSE "let"]
         ELSE node
    ELSE node

----------------------------------------------------------------------------
(* The import assembly, index.js:700-868 *)

NamedImport(names, module) ==
    ImportDeclaration([i \in 1..Len(names) |-> ImportSpecifier(names[i], names[i])],
                      StringLiteral(module))

ExpressImport == NamedImport(<<"Request", "Response", "NextFunction">>, "express")
MongoDBImport == NamedImport(<<"Db", "Collection", "Document">>, "mongodb")
MongooseImport == NamedImport(<<"Model", "Schema", "Document">>, "mongoose")
SQLImport == NamedImport(<<"Connection", "Pool", "Query">>, "mysql2/promise")
SocketIOImport == NamedImport(<<"Socket", "Server">>, "socket.io")
JWTImport == NamedImport(<<"JwtPayload">>, "jsonwebtoken")
AxiosImport == NamedImport(<<"AxiosInstance", "AxiosResponse">>, "axios")
FetchImport == NamedImport(<<"RequestInit", "Response">>, "node-fetch")

(* a variant that appends *)
unshift_AtEnd(nodes, node) == nodes \o <<node>>

unshift(nodes, node) == <<node>> \o nodes

(* the flags in the order of the if statements, with the import of each *)
Bundles ==
    << <<"Express", ExpressImport>>, <<"MongoDB", MongoDBImport>>,
       <<"Mongoose", MongooseImport>>, <<"SQL", SQLImport>>,
       <<"SocketIO", SocketIOImport>>, <<"JWT", JWTImport>>,
       <<"Axios", AxiosImport>>, <<"Fetch", FetchImport>> >>

RECURSIVE AssembleFrom(_, _, _)
AssembleFrom(nodes, flags, i) ==
    IF i > Len(Bundles)
    THEN nodes
    ELSE AssembleFrom(IF flags[Bundles[i][1]] THEN unshift(nodes, Bundles[i][2]) ELSE nodes,
                      flags, i + 1)

----------------------------------------------------------------------------
(* convertFile, index.js:591-887 *)

NoOutput == [written |-> FALSE]
NoExit == -1

(* a variant that exits with status 0 *)
Catch_ExitZero ==
    /\ stage' = "Failed"
    /\ exitCode' = 0

(* index.js:883-886: catch (error) { ...; process.exit(1) } *)
Catch ==
    /\ stage' = "Failed"
    /\ exitCode' = 1

(* index.js:593-598: readFile and parser.parse; either can throw *)
ReadAndParse ==
    /\ stage = "Start"
    /\ \/ /\ stage' = "Parsed"
          /\ UNCHANGED exitCode
       \/ Catch
    /\ UNCHANGED <<source, ast, pos, imports, importNodes, needs, output>>

IsFunction(node) == node.type \in FunctionTypes

(* index.js:616-686 *)
VisitFunction ==
    /\ stage = "Parsed"
    /\ pos <= Len(ast)
    /\ IsFunction(ast[pos].node)
    /\ LET node == ast[pos].node
           r == VisitParams(node.params, node.type, 1, needs)
       IN  /\ needs' = r.flags
           /\ ast' = [ast EXCEPT ![pos].node.params = r.params]
           /\ IF r.threw
              THEN Catch /\ UNCHANGED pos
              ELSE pos' = pos + 1 /\ UNCHANGED <<stage, exitCode>>
    /\ UNCHANGED <<source, imports, importNodes, output>>

RemoveAt(seq, i) == SubSeq(seq, 1, i - 1) \o SubSeq(seq, i + 1, Len(seq))

(* index.js:687-697 *)
VisitVariableDeclaration ==
    /\ stage = "Parsed"
    /\ pos <= Len(ast)
    /\ ast[pos].node.type = "VariableDeclaration"
    /\ LET node == ast[pos].node
           r == handleRequireToImport(node, imports, importNodes)
       IN  /\ imports' = r.imports
           /\ importNodes' = r.importNodes
           /\ IF r.threw
              THEN Catch /\ UNCHANGED <<ast, pos>>
              ELSE IF r.removed
              THEN /\ ast' = RemoveAt(ast, pos)
                   /\ UNCHANGED <<pos, stage, exitCode>>
              ELSE /\ ast' = [ast EXCEPT ![pos].node = RewriteKind(node)]
                   /\ pos' = pos + 1
                   /\ UNCHANGED <<stage, exitCode>>
    /\ UNCHANGED <<source, needs, output>>

(* traverse() returns *)
TraverseDone ==
    /\ stage = "Parsed"
    /\ pos > Len(ast)
    /\ stage' = "Visited"
    /\ UNCHANGED <<source, ast, pos, imports, importNodes, needs, output, exitCode>>

(* index.js:700-868 *)
AssembleImports ==
    /\ stage = "Visited"
    /\ importNodes' = AssembleFrom(importNodes, needs, 1)
    /\ stage' = "ImportsAssembled"
    /\ UNCHANGED <<source, ast, pos, imports, needs, output, exitCode>>

(* index.js:870-882: generate and writeFile; writeFile can throw *)
GenerateAndWrite ==
    /\ stage = "ImportsAssembled"
    /\ \/ /\ output' = [written |-> TRUE, imports |-> importNodes, code |-> ast]
          /\ stage' = "Printed"
          /\ UNCHANGED exitCode
       \/ Catch /\ UNCHANGED output
    /\ UNCHANGED <<source, ast, pos, imports, importNodes, needs>>

----------------------------------------------------------------------------
(* Input files *)

RECURSIVE SeqsUpTo(_, _)
SeqsUpTo(S, n) ==
    IF n = 0 THEN {<<>>}
    ELSE LET shorter == SeqsUpTo(S, n - 1) IN
         shorter \cup {Append(q, x) : q \in {t \in shorter : Len(t) = n - 1}, x \in S}

FunctionNode(t, params) == [type |-> t, params |-> params]

RequireCall(module) == CallExpression("require", <<StringLiteral(module)>>)

ModulePaths == {"express", "lodash"}

ObjectAB == ObjectPattern(<<ObjectProperty("a", "a"), ObjectProperty("b", "c")>>)

Single(kind, id, init, violations) ==
    VariableDeclaration(kind, <<VariableDeclarator(id, init, violations)>>)

RequireDeclarations ==
    {Single("const", id, RequireCall(m), 0) :
        id \in {Identifier("a"), Identifier("b"), ObjectAB}, m \in ModulePaths}
    \cup {Single("var", Identifier("a"), RequireCall(m), 0) : m \in ModulePaths}

OddRequireDeclarations ==
    {Single("const", ObjectPattern(<<ObjectProperty("a", "a"), RestElement>>), RequireCall("lodash"), 0),
     Single("var", ArrayPattern, RequireCall("lodash"), 0),
     Single("var", Identifier("a"), CallExpression("require", <<[type |-> "Identifier", value |-> Undefined]>>), 0),
     Single("const", Identifier("a"), CallExpression("load", <<StringLiteral("lodash")>>), 0)}

PlainDeclarations ==
    {Single("var", Identifier(n), NumericLiteral, v) : n \in {"a", "b"}, v \in 0..MaxViolations}
    \cup {Single("var", Identifier("a"), NoInit, 0),
          Single("var", ObjectAB, NumericLiteral, 0),
          Single("let", Identifier("a"), NumericLiteral, 1)}

MultiDeclarations ==
    {VariableDeclaration("const", <<VariableDeclarator(Identifier("a"), RequireCall("lodash"), 0),
                                    VariableDeclarator(Identifier("b"), NumericLiteral, 0)>>),
     VariableDeclaration("var", <<VariableDeclarator(Identifier("a"), NumericLiteral, 0),
                                  VariableDeclarator(Identifier("b"), NumericLiteral, 1)>>)}

DeclarationNodes ==
    RequireDeclarations \cup OddRequireDeclarations \cup PlainDeclarations \cup MultiDeclarations

StringAnnotation == TSKeyword("TSStringKeyword")

FileParams ==
    {Param("Identifier", n, a, r) :
        n \in {s_req, s_socket}, a \in {NoAnnotation, StringAnnotation},
        r \in {<<>>, <<ObjectSite>>}}
    \cup {Param("Identifier", s_response, NoAnnotation, <<>>),
          Param("Identifier", s_response, NoAnnotation, <<ObjectSite>>),
          Param("AssignmentPattern", s_socket, NoAnnotation, <<>>),
          Param("RestElement", s_req, NoAnnotation, <<ObjectSite>>)}

FileFunctions ==
    {FunctionNode("FunctionDeclaration", <<p>>) : p \in FileParams}
    \cup {FunctionNode("FunctionDeclaration",
                       <<Param("Identifier", s_db, NoAnnotation, <<ObjectSite>>),
                         Param("Identifier", s_query, NoAnnotation, <<ArgumentSite>>)>>),
          FunctionNode("FunctionExpression",
                       <<Param("Identifier", s_socket, NoAnnotation, <<>>),
                         Param("Identifier", s_response, NoAnnotation, <<>>)>>)}

Files == SeqsUpTo(DeclarationNodes \cup FileFunctions, MaxNodes)

(* one function of one parameter, with every kind of reference site *)
RefSites ==
    {Binary("right", "+", "StringLiteral"), Binary("left", "+", "NumericLiteral"),
     Binary("left", "*", "NumericLiteral"), Binary("left", "-", "Identifier"),
     CalleeSite, ArgumentSite, ObjectSite, MapObjectSite, IfTestSite, ConsequentSite,
     ReturnSite}

ParamNames ==
    {s_err, s_error, s_next, s_req, s_response, s_db, s_query, s_socket,
     s_user, s_Socket, s_userModel, s_client}

SingleFunctionFiles ==
    {<<FunctionNode(t, <<Param("Identifier", n, NoAnnotation, r)>>)>> :
        t \in FunctionTypes, n \in ParamNames, r \in SeqsUpTo(RefSites, MaxRefs)}

----------------------------------------------------------------------------
(* Specifications *)

InitWith(files) ==
    /\ source \in files
    /\ ast = [i \in 1..Len(source) |-> [id |-> i, node |-> source[i]]]
    /\ pos = 1
    /\ stage = "Start"
    /\ imports = {}
    /\ importNodes = <<>>
    /\ needs = NoFlags
    /\ output = NoOutput
    /\ exitCode = NoExit

Init == InitWith(Files)

Next ==
    \/ ReadAndParse
    \/ VisitFunction
    \/ VisitVariableDeclaration
    \/ TraverseDone
    \/ AssembleImports
    \/ GenerateAndWrite

Spec == Init /\ [][Next]_vars

(* the conversion of a file that holds one function of one parameter *)
InitInfer == InitWith(SingleFunctionFiles)

NextInfer ==
    \/ ReadAndParse
    \/ VisitFunction
    \/ TraverseDone
    \/ AssembleImports
    \/ GenerateAndWrite

SpecInfer == InitInfer /\ [][NextInfer]_vars

----------------------------------------------------------------------------
(* Vocabulary of the properties *)

WalkDone == stage \in {"Visited", "ImportsAssembled", "Printed"}
Assembled == stage \in {"ImportsAssembled", "Printed"}

(* the node of the input file that the k-th node of the tree comes from *)
SourceOf(k) == source[ast[k].id]

InTree(i) == \E k \in 1..Len(ast) : ast[k].id = i

(* the functions whose parameters have all been handled by the visitor *)
VisitedFunctions == {k \in 1..Len(ast) : k < pos /\ IsFunction(ast[k].node)}

Unannotated(param) == param.type = "Identifier" /\ param.typeAnnotation = NoAnnotation

NumRaised == Cardinality({f \in DOMAIN needs : needs[f]})

(* the imports that come from require declarations: the whole list during  *)
(* the walk, the part behind the bundle imports after the assembly         *)
RequireDerived ==
    IF Assembled
    THEN SubSeq(importNodes, NumRaised + 1, Len(importNodes))
    ELSE importNodes

BundleDriven ==
    IF Assembled THEN SubSeq(importNodes, 1, NumRaised) ELSE <<>>

IsRequireOf(declarator, module) ==
    declarator.init = RequireCall(module)

IsSingle(node) ==
    node.type = "VariableDeclaration" /\ Len(node.declarations) = 1

(* some declarator of the node loads the module *)
Mentions(node, module) ==
    /\ node.type = "VariableDeclaration"
    /\ \E d \in 1..Len(node.declarations) : IsRequireOf(node.declarations[d], module)

CountOf(nodes, P(_)) == Cardinality({n \in 1..Len(nodes) : P(nodes[n])})

----------------------------------------------------------------------------
(* C1: every unannotated identifier parameter named err or error, of every *)
(* kind of function visited, is annotated Error | null, whatever its       *)
(* reference sites.                                                        *)
C1_ErrorParamIsErrorOrNull ==
    \A k \in VisitedFunctions :
        \A j \in 1..Len(SourceOf(k).params) :
            LET p == SourceOf(k).params[j] IN
            (Unannotated(p) /\ p.name \in {s_err, s_error})
                => ast[k].node.params[j].typeAnnotation = ErrorOrNull

(* C2: every single-declarator declaration X = require("mod") leaves       *)
(* exactly one default import of X from "mod" in the import list and is     *)
(* removed from the tree.                                                  *)
C2_OneDefaultImportPerDeclaration ==
    WalkDone =>
        \A i \in 1..Len(source) : \A m \in ModulePaths :
            (/\ IsSingle(source[i])
             /\ source[i].declarations[1].id.type = "Identifier"
             /\ IsRequireOf(source[i].declarations[1], m))
            => LET X == source[i].declarations[1].id.name
                   IsDefaultX(n) == n = ImportDeclaration(<<ImportDefaultSpecifier(X)>>,
                                                          StringLiteral(m))
               IN  /\ CountOf(importNodes, IsDefaultX) = 1
                   /\ ~InTree(i)

(* C3: a declaration {a, b: c} = require("mod") that is the first of the   *)
(* file to load "mod" gives one import from "mod" with one specifier per   *)
(* property, imported = the key and local = the value name; a later        *)
(* declaration that loads the same path adds no second import for it and   *)
(* is removed all the same.                                                *)
IsPlainProperty(prop) ==
    /\ prop.type = "ObjectProperty"
    /\ prop.key.type = "Identifier"
    /\ prop.value.type = "Identifier"

IsDestructuredRequire(node, module) ==
    /\ IsSingle(node)
    /\ node.declarations[1].id.type = "ObjectPattern"
    /\ \A q \in 1..Len(node.declarations[1].id.properties) :
            IsPlainProperty(node.declarations[1].id.properties[q])
    /\ IsRequireOf(node.declarations[1], module)

IsSimpleRequire(node, module) ==
    /\ IsSingle(node)
    /\ node.declarations[1].id.type = "Identifier"
    /\ IsRequireOf(node.declarations[1], module)

IsSimpleVar(node) ==
    /\ IsSingle(node)
    /\ node.kind = "var"
    /\ node.declarations[1].id.type = "Identifier"

Reassigned(node) == node.declarations[1].binding.constantViolations >= 1

C4_VarBecomesConstOrLet ==
    WalkDone =>
        /\ \A k \in 1..Len(ast) :
              IsSimpleVar(SourceOf(k))
              => /\ ~Reassigned(SourceOf(k)) => ast[k].node.kind = "const"
                 /\ Reassigned(SourceOf(k)) => ast[k].node.kind = "let"
                 /\ ast[k].node.kind # "var"
        /\ \A i \in 1..Len(source) :
              (IsSimpleVar(source[i]) /\ \A m \in ModulePaths : ~Mentions(source[i], m))
              => InTree(i)

C4_Witness ==
    /\ WalkDone
    /\ Len(ast) = 2
    /\ IsSimpleVar(SourceOf(1)) /\ ~Reassigned(SourceOf(1)) /\ ast[1].node.kind = "const"
    /\ IsSimpleVar(SourceOf(2)) /\ Reassigned(SourceOf(2)) /\ ast[2].node.kind = "let"

(* C5: for an unannotated identifier parameter that the err/error/next     *)
(* name rules do not catch, the first reference site, in source order,     *)
(* that matches a usage rule decides and later sites are ignored: an       *)
(* operand of + is string (also p + 2); an operand of -, * or / with a     *)
(* numeric literal on the other side is number; the object of a member     *)
(* access is Record<string, any>, or Request / Response for req, request / *)
(* res, response.  A file whose only parameter is user in user.name gets   *)
(* no import.                                                              *)
CaughtByNameRule(param, functionType) ==
    /\ functionType \in {"FunctionDeclaration", "ArrowFunctionExpression"}
    /\ param.name \in {s_err, s_error, s_next}

IsPlusSite(ref) ==
    ref.parent.type = "BinaryExpression" /\ ref.parent.operator = "+"

IsNumericSite(ref) ==
    /\ ref.parent.type = "BinaryExpression"
    /\ ref.parent.operator \in {"-", "*", "/"}
    /\ \/ ref.key = "left" /\ ref.parent.right = "NumericLiteral"
       \/ ref.key = "right" /\ ref.parent.left = "NumericLiteral"

IsTestSite(ref) == ref.parent.type \in {"IfStatement", "ConditionalExpression"}

IsMemberSite(ref) == ref.parent.type = "MemberExpression"

MatchesUsageRule(ref) ==
    IsPlusSite(ref) \/ IsNumericSite(ref) \/ IsTestSite(ref) \/ IsMemberSite(ref)

MemberType(name) ==
    IF name \in {s_req, s_request} THEN TSReference("Request", <<>>)
    ELSE IF name \in {s_res, s_response} THEN TSReference("Response", <<>>)
    ELSE RecordStringAny

UserFile ==
    <<FunctionNode("FunctionDeclaration",
                   <<Param("Identifier", s_user, NoAnnotation, <<ObjectSite>>)>>)>>

IsBareSocketParam(param) ==
    /\ Unannotated(param)
    /\ param.name = s_socket
    /\ \A i \in 1..Len(param.references) : ~MatchesUsageRule(param.references[i])

HasBareSocketParam ==
    \E i \in 1..Len(source) :
        /\ IsFunction(source[i])
        /\ \E j \in 1..Len(source[i].params) : IsBareSocketParam(source[i].params[j])

SocketAnnotated ==
    \A k \in VisitedFunctions :
        \A j \in 1..Len(SourceOf(k).params) :
            IsBareSocketParam(SourceOf(k).params[j])
            => ast[k].node.params[j].typeAnnotation = TSReference("Socket", <<>>)

C6_SocketImportFirst ==
    [][/\ SocketAnnotated'
       /\ (stage = "Visited" /\ stage' = "ImportsAssembled" /\ HasBareSocketParam)
            => \E n \in 1..Len(importNodes') :
                  /\ importNodes'[n].source.value = "socket.io"
                  /\ n + Len(importNodes) <= Len(importNodes')
                  /\ SubSeq(importNodes', Len(importNodes') - Len(importNodes) + 1,
                            Len(importNodes')) = importNodes]_vars

C6_Witness ==
    /\ Assembled
    /\ HasBareSocketParam
    /\ Len(importNodes) = 2
    /\ importNodes[1] = SocketIOImport
    /\ importNodes[2] = ImportDeclaration(<<ImportDefaultSpecifier("a")>>, StringLiteral("lodash"))

(* C7 as stated: the final import list has at most one import statement    *)
(* per module source, bundle imports and require imports taken together.   *)
C7_OneImportPerModule ==
    Assembled =>
        \A i, j \in 1..Len(importNodes) :
            importNodes[i].source.value = importNodes[j].source.value => i = j

(* C7 as amended: the final import list has at most one import that comes  *)
(* from a require declaration and at most one bundle import per module     *)
(* source; the two kinds are not merged.                                   *)
NoRepeatedSource(nodes) ==
    \A i, j \in 1..Len(nodes) :
        nodes[i].source.value = nodes[j].source.value => i = j

C7_OneImportPerModuleAndKind ==
    Assembled => NoRepeatedSource(RequireDerived) /\ NoRepeatedSource(BundleDriven)

C7_Witness ==
    /\ Assembled
    /\ Len(source) = 2
    /\ IsSimpleRequire(source[1], "express")
    /\ IsFunction(source[2]) /\ source[2].params[1].name = s_req
    /\ importNodes = <<ExpressImport,
                       ImportDeclaration(<<ImportDefaultSpecifier("a")>>, StringLiteral("express"))>>

(* C8: an identifier parameter that already has a type annotation keeps    *)
(* it, and its lower-cased name still raises the import flags; a parameter *)
(* that is not a plain identifier is neither annotated nor used to raise   *)
(* flags.                                                                  *)
RaisedBy(f) ==
    \E i \in 1..Len(source) :
        /\ IsFunction(source[i])
        /\ \E j \in 1..Len(source[i].params) :
              /\ source[i].params[j].type = "Identifier"
              /\ Triggers(toLowerCase(source[i].params[j].name))[f]

C8_AnnotatedKeptFlagsRaised ==
    /\ \A k \in 1..Len(ast) :
          IsFunction(ast[k].node)
          => \A j \in 1..Len(SourceOf(k).params) :
                LET p == SourceOf(k).params[j] IN
                /\ (p.type = "Identifier" /\ p.typeAnnotation # NoAnnotation)
                      => ast[k].node.params[j].typeAnnotation = p.typeAnnotation
                /\ p.type # "Identifier" => ast[k].node.params[j] = p
    /\ WalkDone => \A f \in DOMAIN needs : needs[f] <=> RaisedBy(f)

C8_Witness ==
    /\ WalkDone
    /\ Len(source) = 2
    /\ source[1] = FunctionNode("FunctionDeclaration",
                                <<Param("Identifier", s_req, StringAnnotation, <<ObjectSite>>)>>)
    /\ source[2] = FunctionNode("FunctionDeclaration",
                                <<Param("AssignmentPattern", s_socket, NoAnnotation, <<>>)>>)
    /\ ast[1].node.params[1].typeAnnotation = StringAnnotation
    /\ needs.Express
    /\ ~needs.SocketIO

(* C9: the README example findUsers(db, query), with db.collection(...)    *)
(* and collection.find(query), annotates db as Db and query as             *)
(* Record<string, any> and emits one import, from 'mongodb'.               *)
FindUsersFile ==
    <<FunctionNode("FunctionDeclaration",
                   <<Param("Identifier", s_db, NoAnnotation, <<ObjectSite>>),
                     Param("Identifier", s_query, NoAnnotation, <<ArgumentSite>>)>>)>>

C9_ReadmeDatabaseExample ==
    (Assembled /\ source = FindUsersFile)
    => /\ ast[1].node.params[1].typeAnnotation = TSReference("Db", <<>>)
       /\ ast[1].node.params[2].typeAnnotation = RecordStringAny
       /\ Len(importNodes) = 1
       /\ importNodes[1].source.value = "mongodb"

(* C10: convertFile passes Parsed, Visited, ImportsAssembled, Printed in   *)
(* this order, never skipping a stage nor going back; the output is        *)
(* written by the step into Printed only; a failure of an earlier stage    *)
(* writes no output and exits with a non-zero status.                      *)
StageOrder == <<"Start", "Parsed", "Visited", "ImportsAssembled", "Printed">>

StageIndex(st) == CHOOSE i \in 1..Len(StageOrder) : StageOrder[i] = st

C10_StagesInOrder ==
    [][/\ stage # stage'
          => /\ stage \notin {"Printed", "Failed"}
             /\ \/ stage' = "Failed"
                \/ StageIndex(stage') = StageIndex(stage) + 1
       /\ output # output'
          => /\ stage = "ImportsAssembled" /\ stage' = "Printed"
             /\ output' = [written |-> TRUE, imports |-> importNodes, code |-> ast]
       /\ stage' = "Printed" => output'.written
       /\ stage' = "Failed" => (output' = NoOutput /\ exitCode' # 0 /\ exitCode' # NoExit)
       /\ stage' # "Failed" => exitCode' = NoExit]_vars

C10_Witness ==
    /\ stage = "Printed"
    /\ output.written
    /\ Len(output.imports) = 2
    /\ Len(output.code) = 1

(* C11: for every unannotated identifier parameter, whatever its name and  *)
(* its reference sites, the chain usage rules, name catalog, any ends      *)
(* without an error and leaves one annotation on the parameter; also for   *)
(* a parameter named response and for a name no catalog entry matches.     *)
AtFunction ==
    /\ stage = "Parsed"
    /\ pos <= Len(ast)
    /\ IsFunction(ast[pos].node)

C11_ChainAlwaysAnnotates ==
    [][AtFunction
       => /\ stage' = "Parsed"
          /\ \A j \in 1..Len(ast[pos].node.params) :
                Unannotated(ast[pos].node.params[j])
                => ast'[pos].node.params[j].typeAnnotation # NoAnnotation]_vars

(* C12: a declaration statement with more than one declarator is left as   *)
(* it is: it stays in the tree, no import is made from it even when its    *)
(* first declarator is a require call, and its keyword stays, var          *)
(* included.  A var declaration whose target is not an identifier keeps    *)
(* its keyword too.                                                        *)
IsMulti(node) ==
    node.type = "VariableDeclaration" /\ Len(node.declarations) > 1

C12_MultiDeclaratorUntouched ==
    /\ \A i \in 1..Len(source) :
          IsMulti(source[i])
          => \E k \in 1..Len(ast) : ast[k].id = i /\ ast[k].node = source[i]
    /\ \A m \in ModulePaths :
          (\A i \in 1..Len(source) : Mentions(source[i], m) => IsMulti(source[i]))
          => \A n \in 1..Len(RequireDerived) : RequireDerived[n].source.value # m
    /\ \A k \in 1..Len(ast) :
          (/\ IsSingle(SourceOf(k))
           /\ SourceOf(k).kind = "var"
           /\ SourceOf(k).declarations[1].id.type # "Identifier")
          => ast[k].node.kind = "var"

(* C13: an unannotated identifier parameter, not named err, error or next, *)
(* whose first matching reference site is p.map(...) is annotated any[],   *)
(* not Record<string, any>.                                                *)
FirstMatching(param) ==
    CHOOSE i \in 1..Len(param.references) :
        /\ MatchesUsageRule(param.references[i])
        /\ \A h \in 1..(i - 1) : ~MatchesUsageRule(param.references[h])

HasMatching(param) ==
    \E i \in 1..Len(param.references) : MatchesUsageRule(param.references[i])

C13_MapCallIsArray ==
    \A k \in VisitedFunctions :
        \A j \in 1..Len(SourceOf(k).params) :
            LET p == SourceOf(k).params[j] IN
            (/\ Unannotated(p)
             /\ p.name \notin {s_err, s_error, s_next}
             /\ HasMatching(p)
             /\ p.references[FirstMatching(p)] = MapObjectSite)
            => ast[k].node.params[j].typeAnnotation = AnyArray

(* C14: the boolean rule fires only for a reference that is the test of an *)
(* if statement or of a conditional expression.  A parameter whose only    *)
(* reference is the consequent or the alternate of a conditional           *)
(* expression is not boolean; a parameter whose first matching reference   *)
(* is a test is boolean.                                                   *)
IsConditionTest(ref) ==
    /\ ref.parent.type \in {"IfStatement", "ConditionalExpression"}
    /\ ref.key = "test"

IsBranchOfConditional(ref) ==
    /\ ref.parent.type = "ConditionalExpression"
    /\ ref.key \in {"consequent", "alternate"}

MatchesStatedRule(ref) ==
    IsPlusSite(ref) \/ IsNumericSite(ref) \/ IsConditionTest(ref) \/ IsMemberSite(ref)

C14_BooleanOnlyForTest ==
    \A k \in VisitedFunctions :
        \A j \in 1..Len(SourceOf(k).params) :
            LET p == SourceOf(k).params[j]
                stated == {i \in 1..Len(p.references) : MatchesStatedRule(p.references[i])}
                annotation == ast[k].node.params[j].typeAnnotation
            IN  (Unannotated(p) /\ ~CaughtByNameRule(p, SourceOf(k).type))
                => /\ (Len(p.references) = 1 /\ IsBranchOfConditional(p.references[1]))
                        => annotation # TSKeyword("TSBooleanKeyword")
                   /\ (/\ stated # {}
                       /\ IsConditionTest(p.references[CHOOSE i \in stated :
                                                          \A h \in stated : i <= h]))
                        => annotation = TSKeyword("TSBooleanKeyword")

(* C15: the bundle imports stand in the final import list in the order     *)
(* express, mongodb, mongoose, mysql2/promise, socket.io, jsonwebtoken,    *)
(* axios, node-fetch, all of them in front of the imports that come from   *)
(* require declarations, which keep the order of their declarations.       *)
StatedBundleOrder ==
    <<"express", "mongodb", "mongoose", "mysql2/promise", "socket.io",
      "jsonwebtoken", "axios", "node-fetch">>

StatedRank(module) ==
    CHOOSE r \in 1..Len(StatedBundleOrder) : StatedBundleOrder[r] = module

(* the declaration of the file that the n-th require import comes from *)
OriginOf(n) ==
    CHOOSE i \in 1..Len(source) :
        /\ Mentions(source[i], RequireDerived[n].source.value)
        /\ \A h \in 1..(i - 1) : ~Mentions(source[h], RequireDerived[n].source.value)

C15_BundleOrderExpressFirst ==
    Assembled =>
        /\ \A i, j \in 1..Len(BundleDriven) :
              i < j => StatedRank(BundleDriven[i].source.value)
                         < StatedRank(BundleDriven[j].source.value)
        /\ \A i, j \in 1..Len(RequireDerived) :
              i < j => OriginOf(i) < OriginOf(j)

(* C16: a require declaration whose bound pattern has an unexpected shape  *)
(* (an object pattern with a rest element or with a property whose key or  *)
(* value is not an identifier, an array pattern) is left alone: no         *)
(* exception, the declaration stays in the tree as it is, the import list  *)
(* does not change and the walk goes on.                                   *)
HasUnexpectedPattern(node) ==
    LET id == node.declarations[1].id IN
    \/ id.type = "ArrayPattern"
    \/ /\ id.type = "ObjectPattern"
       /\ \E q \in 1..Len(id.properties) : ~IsPlainProperty(id.properties[q])

AtUnexpectedRequire ==
    /\ stage = "Parsed"
    /\ pos <= Len(ast)
    /\ IsSingle(ast[pos].node)
    /\ \E m \in ModulePaths : IsRequireOf(ast[pos].node.declarations[1], m)
    /\ HasUnexpectedPattern(ast[pos].node)

C16_UnexpectedPatternIsNoOp ==
    [][AtUnexpectedRequire
       => /\ stage' = "Parsed"
          /\ ast' = ast
          /\ importNodes' = importNodes
          /\ imports' = imports
          /\ pos' = pos + 1]_vars

(* C17: every unannotated identifier parameter named next is annotated     *)
(* NextFunction, in every kind of function (function expressions           *)
(* included) and whatever its reference sites.                             *)
C17_NextIsNextFunction ==
    \A k \in VisitedFunctions :
        \A j \in 1..Len(SourceOf(k).params) :
            (Unannotated(SourceOf(k).params[j]) /\ SourceOf(k).params[j].name = s_next)
            => ast[k].node.params[j].typeAnnotation = TSReference("NextFunction", <<>>)

(* C18: whenever the catalog annotates a parameter with a library type     *)
(* (Db, Collection, Model, Schema, Connection, Pool, Socket, JwtPayload,   *)
(* AxiosInstance, RequestInit), the final import list holds the import of  *)
(* the bundle of that type; client comes with 'axios', init with           *)
(* 'node-fetch'.                                                           *)
LibraryTypes ==
    {"Db", "Collection", "Model", "Schema", "Connection", "Pool", "Socket",
     "JwtPayload", "AxiosInstance", "RequestInit"}

BundleModuleOf(typeName) ==
    CASE typeName \in {"Db", "Collection"} -> "mongodb"
      [] typeName \in {"Model", "Schema"} -> "mongoose"
      [] typeName \in {"Connection", "Pool"} -> "mysql2/promise"
      [] typeName = "Socket" -> "socket.io"
      [] typeName = "JwtPayload" -> "jsonwebtoken"
      [] typeName = "AxiosInstance" -> "axios"
      [] typeName = "RequestInit" -> "node-fetch"

Imports(typeName, module) ==
    \E n \in 1..Len(importNodes) :
        /\ importNodes[n].source.value = module
        /\ \E q \in 1..Len(importNodes[n].specifiers) :
              importNodes[n].specifiers[q].imported = typeName

C18_CatalogTypeComesWithImport ==
    Assembled =>
        \A k \in 1..Len(ast) :
            IsFunction(ast[k].node)
            => \A j \in 1..Len(SourceOf(k).params) :
                  LET annotation == ast[k].node.params[j].typeAnnotation IN
                  (/\ Unannotated(SourceOf(k).params[j])
                   /\ annotation.type = "TSTypeAnnotation"
                   /\ annotation.typeAnnotation.type = "TSTypeReference"
                   /\ annotation.typeAnnotation.typeName \in LibraryTypes)
                  => Imports(annotation.typeAnnotation.typeName,
                             BundleModuleOf(annotation.typeAnnotation.typeName))

(* C19: no local name is introduced by two import statements of the final  *)
(* import list, whatever flags are raised; Response and Document are       *)
(* imported at most once.                                                  *)
LocalNames(importDeclaration) ==
    {importDeclaration.specifiers[q].local : q \in 1..Len(importDeclaration.specifiers)}

C19_NoNameImportedTwice ==
    Assembled =>
        \A i, j \in 1..Len(importNodes) :
            i # j => LocalNames(importNodes[i]) \cap LocalNames(importNodes[j]) = {}

====
